---------------------------- MODULE Spec2Model ----------------------------
(***************************************************************************)
(* A model of spectralAnalysis.py: the Welch pipeline displacementToWelch, *)
(* the three directional estimators (mlmEstimate, imlmEstimate, bettermem) *)
(* and the helpers they call.                                              *)
(*                                                                         *)
(* Numbers.  numpy's float64 values are modelled in fixed point: the       *)
(* integer n stands for the real n / Scale.  Magnitudes above MaxMag are   *)
(* the infinities, and NaN is a value of its own, so that division by      *)
(* zero, overflow and their propagation behave as in IEEE arithmetic.      *)
(* Unknown is a float whose value the model does not compute (the result   *)
(* of scipy's least-squares fit and what is computed from it).             *)
(* A complex number is a pair <<re, im>> of such values.                   *)
(***************************************************************************)
EXTENDS Integers, Sequences, FiniteSets, TLC

\* ------------------------------------------------------------------------
\* Bounds of the model and constants of the program
\* ------------------------------------------------------------------------

\* Resolution of the fixed-point model of float64: n stands for n / Scale.
Scale == 100
\* Largest finite magnitude of the fixed-point model (the float maximum).
MaxMag == 1000000
\* Largest effective Welch segment length (nperseg) the model draws.
MaxSeg == 5

\* d = 60, the water depth displacementToWelch passes on.
d == 60
\* The deep-water cutoff of `k.any() * d > 15`.
deepCutoff == 15
\* gamma = 10, the second gradient parameter handed to imlmEstimate.
gamma == 10
\* Twice beta = 2.5, the first gradient parameter handed to imlmEstimate.
betaTimes2 == 5
\* range(20): the iteration count of imlmEstimate.
imlmIterations == 20
\* np.arange(0, 360+1, 5): the number of directions.
nDirections == 73
\* The sampling rate 1.28 Hz of the command line call, in units of 1/Scale.
fs == 128
\* The gravity constant 9.86 of waveNum, in units of 1/Scale.
gravity == 986
\* 2 * np.pi in units of 1/Scale.
twoPi == 628

\* ------------------------------------------------------------------------
\* Fixed-point floats
\* ------------------------------------------------------------------------

\* A float is an integer: the value times Scale, or one of the values below.
\* The operations are functions of the values of their arguments.
PInf == MaxMag + 1
NInf == 0 - (MaxMag + 1)
NaN == MaxMag + 2
Unknown == MaxMag + 3

IsNaN[x \in Int] == x = NaN
IsInf[x \in Int] == x = PInf \/ x = NInf
IsFinite[x \in Int] == x >= 0 - MaxMag /\ x <= MaxMag
\* NaN or Unknown: what every operation hands on.
IsSpecial[x \in Int] == x > PInf
Special[x \in Int, y \in Int] == IF x > y THEN x ELSE y

Abs[n \in Int] == IF n < 0 THEN 0 - n ELSE n
Sgn[x \in Int] == IF x = 0 THEN 0 ELSE IF x < 0 THEN 0 - 1 ELSE 1
SignedInf[s \in Int] == IF s < 0 THEN NInf ELSE PInf
\* A mathematical result v as a float: overflow gives an infinity.
Clamp[v \in Int] == IF v > MaxMag THEN PInf ELSE IF v < 0 - MaxMag THEN NInf ELSE v

\* The integer n as a float.
FOfInt[n \in Int] == Clamp[n * Scale]

FNeg[x \in Int] == IF IsSpecial[x] THEN x ELSE 0 - x

\* Finite values small enough for their products, quotients by a finite
\* value and sums of two products to be finite.
FastRange == 70 * Scale
Small[x \in Int] == x < FastRange /\ x > 0 - FastRange

FAdd[x \in Int, y \in Int] ==
  IF Small[x] /\ Small[y] THEN x + y
  ELSE IF IsSpecial[x] \/ IsSpecial[y] THEN Special[x, y]
  ELSE IF IsInf[x] THEN (IF IsInf[y] /\ y # x THEN NaN ELSE x)
  ELSE IF IsInf[y] THEN y
  ELSE Clamp[x + y]

FSub[x \in Int, y \in Int] == FAdd[x, FNeg[y]]

FAbs[x \in Int] == IF IsSpecial[x] THEN x ELSE Abs[x]

\* The integer p / Scale, rounded towards zero.
Trunc[p \in Int] == IF p >= 0 THEN p \div Scale ELSE 0 - ((0 - p) \div Scale)

\* |x| * |y| / Scale for finite x, y, rounded towards zero, without leaving
\* the range of the machine integers: MaxMag + 1 when it overflows.
MulMag[x \in Int, y \in Int] ==
  LET a == Abs[x]
      b == Abs[y]
      hi == a \div Scale
      lo == a % Scale
  IN IF b = 0 \/ a = 0 THEN 0
     ELSE IF hi > MaxMag \div b THEN MaxMag + 1
     ELSE hi * b + (lo * b) \div Scale

FMul[x \in Int, y \in Int] ==
  IF Small[x] /\ Small[y] THEN Trunc[x * y]
  ELSE IF IsSpecial[x] \/ IsSpecial[y] THEN Special[x, y]
  ELSE IF IsInf[x] \/ IsInf[y]
    THEN (IF x = 0 \/ y = 0 THEN NaN ELSE SignedInf[Sgn[x] * Sgn[y]])
  ELSE Clamp[Sgn[x] * Sgn[y] * MulMag[x, y]]

\* |x| * Scale / |y| for finite x and y # 0: MaxMag + 1 when it overflows.
DivMag[x \in Int, y \in Int] ==
  LET a == Abs[x]
      b == Abs[y]
      q == a \div b
      r == a % b
  IN IF q > MaxMag \div Scale THEN MaxMag + 1
     ELSE q * Scale + (r * Scale) \div b

\* numpy division: x / 0 is an infinity (NaN for 0 / 0) and raises nothing.
FDiv[x \in Int, y \in Int] ==
  IF Small[x] /\ y > 0 /\ y <= MaxMag
    THEN (IF x >= 0 THEN (x * Scale) \div y ELSE 0 - (((0 - x) * Scale) \div y))
  ELSE IF IsSpecial[x] \/ IsSpecial[y] THEN Special[x, y]
  ELSE IF IsInf[x] THEN (IF IsInf[y] THEN NaN
                         ELSE SignedInf[Sgn[x] * (IF y < 0 THEN 0 - 1 ELSE 1)])
  ELSE IF IsInf[y] THEN 0
  ELSE IF y = 0 THEN (IF x = 0 THEN NaN ELSE SignedInf[Sgn[x]])
  ELSE Clamp[Sgn[x] * Sgn[y] * DivMag[x, y]]

\* The largest r in lo..hi with r * r <= n (bisection).
ISqrtIn[n \in Int, lo \in Int, hi \in Int] ==
  IF lo >= hi THEN lo
  ELSE LET mid == (lo + hi + 1) \div 2
       IN IF mid * mid <= n THEN ISqrtIn[n, mid, hi] ELSE ISqrtIn[n, lo, mid - 1]

\* np.sqrt: NaN for a negative argument.
FSqrt[x \in Int] ==
  IF IsSpecial[x] THEN x
  ELSE IF x = PInf THEN PInf
  ELSE IF x < 0 THEN NaN
  ELSE ISqrtIn[x * Scale, 0, 10001]

\* x ** n for a natural number n.
FPowInt[x \in Int, n \in Int] == IF n = 0 THEN Scale ELSE FMul[x, FPowInt[x, n - 1]]

\* x ** (twice / 2) for x >= 0: the power of imlmEstimate's eFactor.
FPowHalves[x \in Int, twice \in Int] ==
  IF twice % 2 = 0 THEN FPowInt[x, twice \div 2]
  ELSE FMul[FPowInt[x, twice \div 2], FSqrt[x]]

\* ------------------------------------------------------------------------
\* Complex numbers
\* ------------------------------------------------------------------------

CZero == <<0, 0>>
COne == <<Scale, 0>>
CI == <<0, Scale>>
CReal[x \in Int] == <<x, 0>>
Re[z \in Int \X Int] == z[1]
Im[z \in Int \X Int] == z[2]
CConj[z \in Int \X Int] == <<z[1], FNeg[z[2]]>>
CNeg[z \in Int \X Int] == <<FNeg[z[1]], FNeg[z[2]]>>
CAdd[z \in Int \X Int, w \in Int \X Int] == <<FAdd[z[1], w[1]], FAdd[z[2], w[2]]>>
CSub[z \in Int \X Int, w \in Int \X Int] == <<FSub[z[1], w[1]], FSub[z[2], w[2]]>>
CMul[z \in Int \X Int, w \in Int \X Int] ==
  IF Small[z[1]] /\ Small[z[2]] /\ Small[w[1]] /\ Small[w[2]]
    THEN <<Trunc[z[1] * w[1]] - Trunc[z[2] * w[2]],
           Trunc[z[1] * w[2]] + Trunc[z[2] * w[1]]>>
  ELSE <<FSub[FMul[z[1], w[1]], FMul[z[2], w[2]]],
         FAdd[FMul[z[1], w[2]], FMul[z[2], w[1]]]>>
\* A complex number times, or divided by, a real one.
CScale[z \in Int \X Int, x \in Int] == <<FMul[z[1], x], FMul[z[2], x]>>
CDivReal[z \in Int \X Int, x \in Int] == <<FDiv[z[1], x], FDiv[z[2], x]>>


\* ------------------------------------------------------------------------
\* Arrays
\* ------------------------------------------------------------------------

\* The function f over 1..n as an array: a sequence whose elements are
\* computed once, when the array is built, as numpy computes them.
Array(f) == f \o <<>>

\* ------------------------------------------------------------------------
\* Directions: theta = np.radians(np.arange(0, 360+1, 5))
\* ------------------------------------------------------------------------

\* Direction t (1..nDirections) is the angle 5 * (t - 1) degrees.
Directions == 1..nDirections

\* The angles in radians, np.cos and np.sin of them, to 1 / Scale.
thetaRad ==
  <<  0, 9, 17, 26, 35, 44, 52, 61, 70, 79, 87, 96,
      105, 113, 122, 131, 140, 148, 157, 166, 175, 183, 192, 201,
      209, 218, 227, 236, 244, 253, 262, 271, 279, 288, 297, 305,
      314, 323, 332, 340, 349, 358, 367, 375, 384, 393, 401, 410,
      419, 428, 436, 445, 454, 463, 471, 480, 489, 497, 506, 515,
      524, 532, 541, 550, 559, 567, 576, 585, 593, 602, 611, 620,
      628 >>

cosTheta ==
  <<  100, 100, 98, 97, 94, 91, 87, 82, 77, 71, 64, 57,
      50, 42, 34, 26, 17, 9, 0, -9, -17, -26, -34, -42,
      -50, -57, -64, -71, -77, -82, -87, -91, -94, -97, -98, -100,
      -100, -100, -98, -97, -94, -91, -87, -82, -77, -71, -64, -57,
      -50, -42, -34, -26, -17, -9, 0, 9, 17, 26, 34, 42,
      50, 57, 64, 71, 77, 82, 87, 91, 94, 97, 98, 100,
      100 >>

sinTheta ==
  <<  0, 9, 17, 26, 34, 42, 50, 57, 64, 71, 77, 82,
      87, 91, 94, 97, 98, 100, 100, 100, 98, 97, 94, 91,
      87, 82, 77, 71, 64, 57, 50, 42, 34, 26, 17, 9,
      0, -9, -17, -26, -34, -42, -50, -57, -64, -71, -77, -82,
      -87, -91, -94, -97, -98, -100, -100, -100, -98, -97, -94, -91,
      -87, -82, -77, -71, -64, -57, -50, -42, -34, -26, -17, -9,
      0 >>

\* ------------------------------------------------------------------------
\* The Welch estimate: what signal.csd and signal.welch return
\* ------------------------------------------------------------------------

\* Axes of the cross-spectral matrix: 1 = z, 2 = x, 3 = y.
Axes == 1..3

\* The complex number re + im * i with integer parts.
C(re, im) == <<re * Scale, im * Scale>>

\* 3x3 Hermitian, positive semi-definite matrices one frequency bin of a
\* Welch estimate can hold: a bin with energy on every axis and distinct
\* moments, and a bin without any energy.
BinCatalogue ==
  << << <<C(2, 0), C(0, 1), C(0, -1)>>,
        <<C(0, -1), C(2, 0), C(1, 0)>>,
        <<C(0, 1), C(1, 0), C(3, 0)>> >>,
     << <<C(0, 0), C(0, 0), C(0, 0)>>,
        <<C(0, 0), C(0, 0), C(0, 0)>>,
        <<C(0, 0), C(0, 0), C(0, 0)>> >> >>

CatalogueIds == 1..Len(BinCatalogue)

\* The frequency bins of a Welch estimate with segment length n, as
\* multiples of fs / n: rfftfreq order when one-sided, fftfreq order (the
\* negative frequencies after the positive ones) when two-sided.
welchBins(n, onesided) ==
  IF onesided THEN Array([i \in 1..(n \div 2 + 1) |-> i - 1])
  ELSE Array([i \in 1..n |-> IF i - 1 <= (n - 1) \div 2 THEN i - 1 ELSE i - 1 - n])

\* The frequency of bin j in Hz.
binFreq(j, n) == Sgn[j] * ((Abs[j] * fs) \div n)

\* xF of signal.welch.
welchFreq(n, onesided) ==
  LET bins == welchBins(n, onesided)
  IN Array([i \in 1..Len(bins) |-> binFreq(bins[i], n)])

\* signal.csd(a, b, ...)[1] for the axes a, b of real series whose spectrum at
\* the bin j >= 0 is the catalogue matrix half[j]: the bin -j holds the
\* conjugate.
csd(a, b, half, n, onesided) ==
  LET bins == welchBins(n, onesided)
  IN Array([i \in 1..Len(bins) |->
        IF bins[i] >= 0 THEN BinCatalogue[half[bins[i]]][a][b]
        ELSE CConj[BinCatalogue[half[0 - bins[i]]][a][b]]])

\* A trim that keeps the zero-frequency bin.
trimKeepsFirst(t) == t

\* trim: t[1:]
trim(t) == IF Len(t) = 0 THEN t ELSE Tail(t)

\* seriesToCrossSpectrum: the 3x3 matrix of trimmed cross-spectra.
seriesToCrossSpectrum(half, n, onesided) ==
  Array([a \in Axes |-> Array([b \in Axes |-> trim(csd(a, b, half, n, onesided))])])

\* ------------------------------------------------------------------------
\* zxyMatrixInverse: np.linalg.pinv of every bin
\* ------------------------------------------------------------------------

\* The bin i of a 3x3 matrix of sequences, as a 3x3 matrix.
BinOf(G, i) == Array([a \in Axes |-> Array([b \in Axes |-> G[a][b][i]])])

MatMul(A, B) ==
  Array([a \in Axes |-> Array([b \in Axes |->
     CAdd[CAdd[CMul[A[a][1], B[1][b]], CMul[A[a][2], B[2][b]]],
          CMul[A[a][3], B[3][b]]]])])

\* The 2x2 minor of M without row a and column b.
Minor(M, a, b) ==
  LET r == IF a = 1 THEN <<2, 3>> ELSE IF a = 2 THEN <<1, 3>> ELSE <<1, 2>>
      c == IF b = 1 THEN <<2, 3>> ELSE IF b = 2 THEN <<1, 3>> ELSE <<1, 2>>
  IN CSub[CMul[M[r[1]][c[1]], M[r[2]][c[2]]], CMul[M[r[1]][c[2]], M[r[2]][c[1]]]]

Cofactor(M, a, b) == IF (a + b) % 2 = 0 THEN Minor(M, a, b) ELSE CNeg[Minor(M, a, b)]

\* The determinant, trace and sum of principal 2x2 minors of a Hermitian
\* matrix: real numbers.
Det(M) ==
  Re[CAdd[CAdd[CMul[M[1][1], Cofactor(M, 1, 1)], CMul[M[1][2], Cofactor(M, 1, 2)]],
          CMul[M[1][3], Cofactor(M, 1, 3)]]]
Trace(M) == FAdd[FAdd[Re[M[1][1]], Re[M[2][2]]], Re[M[3][3]]]
Minors2(M) == FAdd[FAdd[Re[Minor(M, 1, 1)], Re[Minor(M, 2, 2)]], Re[Minor(M, 3, 3)]]

\* The Moore-Penrose pseudo-inverse of a Hermitian 3x3 matrix M, by rank:
\* adj(M) / det; (t^2 M - t M^2 - s M) / s^2 with t the trace and s the
\* sum of the principal minors; M / t^2; and the zero matrix.
pinv(M) ==
  LET det == Det(M)
      t == Trace(M)
      s == Minors2(M)
      M2 == MatMul(M, M)
      entry(a, b) ==
        IF det # 0 THEN CDivReal[Cofactor(M, b, a), det]
        ELSE IF s # 0
          THEN CDivReal[CSub[CSub[CScale[M[a][b], FMul[t, t]], CScale[M2[a][b], t]],
                             CScale[M[a][b], s]],
                        FMul[s, s]]
        ELSE IF t # 0 THEN CDivReal[M[a][b], FMul[t, t]]
        ELSE CZero
  IN Array([a \in Axes |-> Array([b \in Axes |-> entry(a, b)])])

\* The number of frequency bins of a 3x3 matrix of sequences: G.shape[-1].
nBins(G) == Len(G[1][1])

zxyMatrixInverse(G) ==
  LET inv == Array([i \in 1..nBins(G) |-> pinv(BinOf(G, i))])
  IN Array([a \in Axes |-> Array([b \in Axes |->
       Array([i \in 1..nBins(G) |-> inv[i][a][b]])])])

\* ------------------------------------------------------------------------
\* Fourier moments and wavenumber
\* ------------------------------------------------------------------------

\* firstOrderFourier: <<a1, b1>> of one frequency bin.
firstOrderFourier(zx, xx, yy, zz, zy) ==
  LET root == FSqrt[FMul[FAdd[xx, yy], zz]]
  IN <<FDiv[FMul[Scale, zx], root], FDiv[FMul[Scale, zy], root]>>

\* A secondOrderFourier whose b2 is normalised by xx alone.
secondOrderFourierByXx(xx, yy, zz, xy) ==
  <<FDiv[FSub[xx, yy], FAdd[xx, yy]], FDiv[FMul[2 * Scale, xy], xx]>>

\* secondOrderFourier: <<a2, b2>> of one frequency bin.
secondOrderFourier(xx, yy, zz, xy) ==
  <<FDiv[FSub[xx, yy], FAdd[xx, yy]], FDiv[FMul[2 * Scale, xy], FAdd[xx, yy]]>>

\* waveNum of one frequency: (2 * pi * freq)**2 / 9.86
waveNum(f) == FDiv[FPowInt[FMul[twoPi, f], 2], gravity]

\* ------------------------------------------------------------------------
\* The moments table rf of displacementToWelch
\* ------------------------------------------------------------------------

\* rf = pd.DataFrame({'freq': xF[1:]}) with the co- and quadrature spectra
\* of Ds as columns: row i has the index label i - 1.
spectraTable(xF, Ds) ==
  Array([i \in 1..(Len(xF) - 1) |->
     [label |-> i - 1,
      freq |-> xF[i + 1],
      Czz |-> Re[Ds[1][1][i]],
      Cxx |-> Re[Ds[2][2][i]],
      Cyy |-> Re[Ds[3][3][i]],
      Cxy |-> Re[Ds[2][3][i]],
      Qzx |-> Im[Ds[1][2][i]],
      Qzy |-> Im[Ds[1][3][i]]]])

\* A filter that keeps the rows of every frequency.
everyRow(rows) == rows

\* rf[rf.freq > 0]: the rows of positive frequency, in order, labels kept.
positiveRows(rows) == SelectSeq(rows, LAMBDA r : r.freq > 0)

\* The columns a0, a1, b1, a2, b2 and k added to a row.
withMoments(r) ==
  LET first == firstOrderFourier(r.Qzx, r.Cxx, r.Cyy, r.Czz, r.Qzy)
      second == secondOrderFourier(r.Cxx, r.Cyy, r.Czz, r.Cxy)
  IN [label |-> r.label, freq |-> r.freq,
      Czz |-> r.Czz, Cxx |-> r.Cxx, Cyy |-> r.Cyy,
      Cxy |-> r.Cxy, Qzx |-> r.Qzx, Qzy |-> r.Qzy,
      a0 |-> r.Czz,
      a1 |-> first[1], b1 |-> first[2],
      a2 |-> second[1], b2 |-> second[2],
      k |-> waveNum(r.freq)]

\* The table as displacementToWelch holds it when it dispatches.
momentsTable(xF, Ds) ==
  LET kept == positiveRows(spectraTable(xF, Ds))
  IN Array([i \in 1..Len(kept) |-> withMoments(kept[i])])

\* A column of the table as an array: rf.<col>.to_numpy()
freqOf(rows) == Array([i \in 1..Len(rows) |-> rows[i].freq])
kOf(rows) == Array([i \in 1..Len(rows) |-> rows[i].k])
CzzOf(rows) == Array([i \in 1..Len(rows) |-> CReal[rows[i].Czz]])

\* ------------------------------------------------------------------------
\* Transfer functions
\* ------------------------------------------------------------------------

\* k.any() as the number the comparison multiplies: 1 when some element of
\* k is not zero.
kAny(k) == IF \E i \in 1..Len(k) : k[i] # 0 THEN 1 ELSE 0

\* The hyperbolic gains of one bin, kept as terms: the model computes no
\* cosh and sinh.  k * (d + .5) is kept doubled.
hzHyperbolic(kk, dd) == [fn |-> "sinh/sinh", num2 |-> kk * (2 * dd + 1), den |-> kk * dd]
hxyHyperbolic(kk, dd) == [fn |-> "i*cosh/sinh", num2 |-> kk * (2 * dd + 1), den |-> kk * dd]
deepGain(z) == [fn |-> "const", val |-> z]

\* Transfer functions that choose the branch bin by bin, from k[i] * d.
mlmGainsPerBin(k, dd) ==
  [deep |-> kAny(k) * dd > deepCutoff,
   hz |-> Array([i \in 1..Len(k) |->
            IF k[i] * dd > deepCutoff THEN deepGain(COne) ELSE hzHyperbolic(k[i], dd)]),
   hxy |-> Array([i \in 1..Len(k) |->
            IF k[i] * dd > deepCutoff THEN deepGain(CI) ELSE hxyHyperbolic(k[i], dd)])]

\* The transfer functions of mlmEstimate for the wavenumbers k and depth dd.
mlmGains(k, dd) ==
  IF kAny(k) * dd > deepCutoff
    THEN [deep |-> TRUE,
          hz |-> Array([i \in 1..Len(k) |-> deepGain(COne)]),
          hxy |-> Array([i \in 1..Len(k) |-> deepGain(CI)])]
    ELSE [deep |-> FALSE,
          hz |-> Array([i \in 1..Len(k) |-> hzHyperbolic(k[i], dd)]),
          hxy |-> Array([i \in 1..Len(k) |-> hxyHyperbolic(k[i], dd)])]

\* The transfer functions of spectrumToCrossSpectrum.
s2cGains(k, dd) ==
  IF kAny(k) * dd > deepCutoff
    THEN [deep |-> TRUE,
          hz |-> Array([i \in 1..Len(k) |-> deepGain(COne)]),
          hxy |-> Array([i \in 1..Len(k) |-> deepGain(CI)])]
    ELSE [deep |-> FALSE,
          hz |-> Array([i \in 1..Len(k) |-> hzHyperbolic(k[i], dd)]),
          hxy |-> Array([i \in 1..Len(k) |-> hxyHyperbolic(k[i], dd)])]

\* The value of a gain: only the deep-water gains have one in this model.
GainValue(g) == CASE g.fn = "const" -> g.val

\* hmatrix = [hz, hxy, -hxy] at the bin i.
hmatrix(g, i) ==
  <<GainValue(g.hz[i]), GainValue(g.hxy[i]), CNeg[GainValue(g.hxy[i])]>>

\* The length of the result of an elementwise operation on arrays of the
\* lengths a and b, and -1 where numpy raises ValueError.
BroadcastLen(a, b) ==
  IF a = b THEN a ELSE IF a = 1 THEN b ELSE IF b = 1 THEN a ELSE 0 - 1

\* The index into an array of length len for the element j of the result.
BIndex(len, j) == IF len = 1 THEN 1 ELSE j

\* ------------------------------------------------------------------------
\* mlmEstimate
\* ------------------------------------------------------------------------

\* alpha(f) = [1, cos f, -sin f] for the direction t.
alpha(t) == <<CReal[Scale], CReal[cosTheta[t]], CReal[FNeg[sinTheta[t]]]>>

\* mlmsum for the direction t at the bin with transfer functions h and
\* inverse cross-spectrum M: the nine terms in the order m, n.  The factor
\* np.conj(alpha(f)[n] * hmatrix[n]) is the conjugate of the first factor
\* of the same index.
mlmSum(h, a, M) ==
  LET u == <<CMul[h[1], a[1]], CMul[h[2], a[2]], CMul[h[3], a[3]]>>
      v == <<CConj[u[1]], CConj[u[2]], CConj[u[3]]>>
      term(m, n) == Re[CMul[CMul[u[m], M[m][n]], v[n]]]
  IN FAdd[FAdd[FAdd[FAdd[FAdd[FAdd[FAdd[FAdd[FAdd[0,
       term(1, 1)], term(1, 2)], term(1, 3)],
       term(2, 1)], term(2, 2)], term(2, 3)],
       term(3, 1)], term(3, 2)], term(3, 3)]

\* mlmEstimate(Ds, thetaG, k, d), the rows of thetaG being as long as k:
\* [err |-> the exception raised or "", grid |-> 1 / np.array(mlm)].
mlmEstimate(G, k, dd) ==
  LET cols == BroadcastLen(Len(k), nBins(G))
      g == mlmGains(k, dd)
      hs == Array([j \in 1..cols |-> hmatrix(g, BIndex(Len(k), j))])
      Ms == Array([j \in 1..cols |-> BinOf(G, BIndex(nBins(G), j))])
  IN IF cols < 0 THEN [err |-> "ValueError", grid |-> <<>>]
     ELSE [err |-> "",
           grid |-> Array([t \in Directions |-> Array([j \in 1..cols |->
              FDiv[Scale, mlmSum(hs[j], alpha(t), Ms[j])]])])]

\* ------------------------------------------------------------------------
\* spectrumToCrossSpectrum
\* ------------------------------------------------------------------------

\* The number of columns of a grid of nDirections rows.
nCols(S) == Len(S[1])

RECURSIVE trapzSum(_, _, _)
\* The sum over the intervals lo..hi of theta of d * (y[t + 1] + y[t]) / 2.0,
\* added up by halves.
trapzSum(y, lo, hi) ==
  IF lo = hi
    THEN CDivReal[CMul[CReal[thetaRad[lo + 1] - thetaRad[lo]], CAdd[y[lo + 1], y[lo]]],
                  2 * Scale]
  ELSE LET mid == (lo + hi) \div 2
       IN CAdd[trapzSum(y, lo, mid), trapzSum(y, mid + 1, hi)]

\* np.trapz(y, x=theta) of the complex array y.
trapz[y \in Seq(Int \X Int)] == trapzSum(y, 1, nDirections - 1)

\* One entry G[m][n] of spectrumToCrossSpectrum for the complex grid S.
s2cEntry(S, g, nk, cols, m, n) ==
  Array([j \in 1..cols |->
     LET h == hmatrix(g, BIndex(nk, j))
         hh == CMul[h[m], CConj[h[n]]]
         js == BIndex(nCols(S), j)
     IN trapz[Array([t \in Directions |-> CMul[hh, S[t][js]]])]])

\* Whether spectrumToCrossSpectrum(S, k, theta, d, freq) raises: the columns
\* of S and the entries of k do not broadcast.
s2cRaises(S, k) == BroadcastLen(Len(k), nCols(S)) < 0

\* spectrumToCrossSpectrum(S, k, theta, d, freq) where it does not raise: the
\* matrix G, each entry computed when it is read.
spectrumToCrossSpectrum(S, k, dd) ==
  [m \in Axes |-> [n \in Axes |->
     s2cEntry(S, s2cGains(k, dd), Len(k), BroadcastLen(Len(k), nCols(S)), m, n)]]

\* E * curr and np.array(rf.Czz) * estimate: a row of complex numbers times
\* every row of a grid of reals.
BroadcastTimes(row, grid) ==
  LET cols == BroadcastLen(Len(row), nCols(grid))
  IN IF cols < 0 THEN [err |-> "ValueError", grid |-> <<>>]
     ELSE [err |-> "",
           grid |-> Array([t \in Directions |-> Array([j \in 1..cols |->
              CMul[row[BIndex(Len(row), j)],
                   CReal[grid[t][BIndex(nCols(grid), j)]]]])])]

\* ------------------------------------------------------------------------
\* imlmEstimate: one pass of the loop body
\* ------------------------------------------------------------------------

\* A python value that is the scalar x, and one that is the array g.
ScalarVal(x) == [scalar |-> TRUE, val |-> x]
ArrayVal(g) == [scalar |-> FALSE, val |-> g]
\* The element (t, j) of a value broadcast against a grid.
ElementOf(v, t, j) == IF v.scalar THEN v.val ELSE v.val[t][j]

\* eFactor = (np.abs(lamb)**(betaHP + 1.0)) / (lamb * gammaHP), elementwise;
\* twiceBeta is 2 * betaHP.
eFactor(lamb, twiceBeta, gammaHP) ==
  FDiv[FPowHalves[FAbs[lamb], twiceBeta + 2], FMul[lamb, FOfInt[gammaHP]]]

\* An update that adds the correction to the initial estimate.
imlmUpdateOfInitial(initial, previous, twiceBeta, gammaHP) ==
  Array([t \in Directions |-> Array([j \in 1..nCols(initial) |->
     LET lamb == FSub[initial[t][j], ElementOf(previous, t, j)]
     IN FAdd[initial[t][j], eFactor(lamb, twiceBeta, gammaHP)]])])

\* lamb = initialEstimate - prev; curr = prev + eFactor, elementwise.
imlmUpdate(initial, previous, twiceBeta, gammaHP) ==
  Array([t \in Directions |-> Array([j \in 1..nCols(initial) |->
     LET p == ElementOf(previous, t, j)
         lamb == FSub[initial[t][j], p]
     IN FAdd[p, eFactor(lamb, twiceBeta, gammaHP)]])])

\* ------------------------------------------------------------------------
\* bettermem: the target vector and the fit of one cell
\* ------------------------------------------------------------------------

\* ff.<col>[i]: the value of a column in the row whose index label is i
\* (None when no row has that label: pandas raises KeyError).
RowAt(rows, i) ==
  LET at == {r \in 1..Len(rows) : rows[r].label = i}
  IN IF at = {} THEN [label |-> 0 - 1] ELSE rows[CHOOSE r \in at : TRUE]

\* y of bettermem for the frequency index i (0-based, as range(len(freqG))).
memTarget(rows, i) ==
  LET r == RowAt(rows, i)
  IN <<r.a0, r.a1, r.b2, r.a2, r.b2>>

\* optimize.least_squares raises ValueError("Residuals are not finite in
\* the initial point") when fun(x0) is not finite: the residual is
\* |coef - y| with coef finite at x0 = [1, 1, 1, 1, 1].
residualsFinite(y) == \A c \in 1..5 : IsFinite[y[c]]

\* The cell np.exp(-x0 - x1 cos(theta) - ...) of the fitted model: a float
\* the model does not compute.
memCell(y, t) == Unknown

\* ------------------------------------------------------------------------
\* State
\* ------------------------------------------------------------------------

VARIABLES
  method,           \* the estimator name handed to displacementToWelch
  sided,            \* return_onesided: TRUE for a one-sided spectrum
  nperseg,          \* the effective Welch segment length
  half,             \* the spectrum of the series at the bins 0..nperseg/2
  pc,               \* where the run is
  err,              \* the exception that ended the run
  Ds,               \* the cross-spectral matrix
  Gmn,              \* its inverse
  rf,               \* the moments table
  mlm,              \* the local mlm of the imlm branch
  estimate,         \* the local estimate of displacementToWelch
  initialEstimate,  \* imlmEstimate: the MLM estimate before the loop
  E,                \* imlmEstimate: the heave spectrum
  prev,             \* imlmEstimate: the previous estimate
  curr,             \* imlmEstimate: the current estimate
  it,               \* imlmEstimate: passes of the loop completed
  synthesized,      \* imlmEstimate: the estimate last synthesized from
  memRows,          \* bettermem: the rows of the grid appended so far
  fits,             \* bettermem: the least-squares calls of the last row
  lsqFails,         \* the bins (by catalogue id) whose fit does not converge
  deepLog,          \* the branch of every transfer function evaluated
  refined,          \* the spectra re-synthesized from Czz * estimate
  returned,         \* what displacementToWelch returned
  hin,              \* the argument of a function applied on its own
  hout              \* and its result

inputVars == <<method, sided, nperseg, half>>
tableVars == <<Ds, Gmn, rf>>
imlmVars == <<initialEstimate, E, prev, curr, it, synthesized>>
memVars == <<memRows, fits, lsqFails>>
harnessVars == <<hin, hout>>
vars == <<inputVars, pc, err, tableVars, mlm, estimate, imlmVars, memVars,
          deepLog, refined, returned, harnessVars>>

\* The estimator names the dispatch knows, and one it does not.
MethodNames == {"mlm", "imlm", "mem"}
MethodInputs == MethodNames \cup {"emep"}

None == <<>>
NoError == [type |-> "", at |-> ""]
Unbound == [bound |-> FALSE, val |-> <<>>]
Bound(v) == [bound |-> TRUE, val |-> v]

\* Every variable but the inputs, before anything ran.
Blank ==
  /\ pc = "start"
  /\ err = NoError
  /\ Ds = None /\ Gmn = None /\ rf = None
  /\ mlm = None
  /\ estimate = Unbound
  /\ initialEstimate = None /\ E = None /\ prev = None /\ curr = None
  /\ it = 0 /\ synthesized = None
  /\ memRows = <<>> /\ fits = <<>> /\ lsqFails = {}
  /\ deepLog = <<>>
  /\ refined = None
  /\ returned = None

Init ==
  /\ method \in MethodInputs
  /\ sided \in BOOLEAN
  /\ nperseg \in 1..MaxSeg
  /\ half \in [0..(nperseg \div 2) -> CatalogueIds]
  /\ half[0] = 1
  /\ Blank
  /\ hin = None /\ hout = None

\* ------------------------------------------------------------------------
\* displacementToWelch
\* ------------------------------------------------------------------------

\* waveNum(freq) of line 215, elementwise.
waveNumbers(freq) == Array([i \in 1..Len(freq) |-> waveNum(freq[i])])

\* xF of line 31.
xF == welchFreq(nperseg, sided)

\* The exception type at the place at ends the run.
Raise(type, at) ==
  /\ pc' = "error"
  /\ err' = [type |-> type, at |-> at]

\* Lines 21-29: Ds = seriesToCrossSpectrum(...); Gmn = zxyMatrixInverse(Ds)
CrossSpectrum ==
  /\ pc = "start"
  /\ Ds' = seriesToCrossSpectrum(half, nperseg, sided)
  /\ Gmn' = zxyMatrixInverse(Ds')
  /\ pc' = "table"
  /\ UNCHANGED <<inputVars, err, rf, mlm, estimate, imlmVars, memVars, deepLog,
                 refined, returned, harnessVars>>

\* Lines 31-58: the table rf, its moments and wavenumbers.
MomentsTable ==
  /\ pc = "table"
  /\ rf' = momentsTable(xF, Ds)
  /\ pc' = "dispatch"
  /\ UNCHANGED <<inputVars, err, Ds, Gmn, mlm, estimate, imlmVars, memVars,
                 deepLog, refined, returned, harnessVars>>

\* Lines 59-60: estimate = mlmEstimate(Gmn, thetaG, k, d)
DispatchMlm ==
  /\ pc = "dispatch"
  /\ method = "mlm"
  /\ \E r \in {mlmEstimate(Gmn, kOf(rf), d)} :
        IF r.err # ""
          THEN Raise(r.err, "mlmEstimate") /\ UNCHANGED estimate
          ELSE /\ estimate' = Bound(r.grid)
               /\ pc' = "resynth"
               /\ err' = err
  /\ deepLog' = Append(deepLog, mlmGains(kOf(rf), d).deep)
  /\ UNCHANGED <<inputVars, tableVars, mlm, imlmVars, memVars, refined, returned,
                 harnessVars>>

\* Lines 61-66: mlm = mlmEstimate(Gmn, thetaG, k, d), before imlmEstimate
\* is called.
DispatchImlm ==
  /\ pc = "dispatch"
  /\ method = "imlm"
  /\ \E r \in {mlmEstimate(Gmn, kOf(rf), d)} :
        IF r.err # ""
          THEN Raise(r.err, "mlmEstimate") /\ UNCHANGED mlm
          ELSE /\ mlm' = r.grid
               /\ pc' = "imlm_enter"
               /\ err' = err
  /\ deepLog' = Append(deepLog, mlmGains(kOf(rf), d).deep)
  /\ UNCHANGED <<inputVars, tableVars, estimate, imlmVars, memVars, refined,
                 returned, harnessVars>>

\* Lines 67 and 215-220: imlmEstimate(Ds, freq, theta, d, k, beta, gamma) up
\* to its loop.
ImlmEnter ==
  /\ pc = "imlm_enter"
  /\ \E k \in {waveNumbers(freqOf(rf))} :
     \E r \in {mlmEstimate(zxyMatrixInverse(Ds), k, d)} :
        IF r.err # ""
          THEN /\ Raise(r.err, "mlmEstimate")
               /\ deepLog' = Append(deepLog, mlmGains(k, d).deep)
               /\ UNCHANGED imlmVars
          ELSE /\ initialEstimate' = r.grid
               /\ E' = Ds[1][1]
               /\ prev' = ScalarVal(0)
               /\ curr' = ArrayVal(r.grid)
               /\ it' = 0
               /\ synthesized' = None
               /\ deepLog' = Append(deepLog, mlmGains(k, d).deep)
               /\ pc' = "imlm_loop"
               /\ err' = err
  /\ UNCHANGED <<inputVars, tableVars, mlm, estimate, memVars, refined, returned,
                 harnessVars>>

\* Lines 221-228: one pass of `for i in range(20)`.
ImlmIterate ==
  /\ pc = "imlm_loop"
  /\ it < imlmIterations
  /\ \E S \in {BroadcastTimes(E, curr.val)} :
     \E k \in {waveNumbers(freqOf(rf))} :
     \E next \in {imlmUpdate(initialEstimate, prev, betaTimes2, gamma)} :
        IF S.err # "" \/ s2cRaises(S.grid, k)
          THEN /\ Raise("ValueError", "imlmEstimate")
               /\ deepLog' = IF S.err # "" THEN deepLog
                              ELSE Append(deepLog, s2cGains(k, d).deep)
               /\ UNCHANGED imlmVars
          ELSE /\ E' = spectrumToCrossSpectrum(S.grid, k, d)[1][1]
               /\ curr' = ArrayVal(next)
               /\ prev' = ArrayVal(next)
               /\ it' = it + 1
               /\ synthesized' = curr
               /\ deepLog' = Append(deepLog, s2cGains(k, d).deep)
               /\ pc' = pc
               /\ err' = err
               /\ UNCHANGED initialEstimate
  /\ UNCHANGED <<inputVars, tableVars, mlm, estimate, memVars, refined, returned,
                 harnessVars>>

\* A return that also leaves the loop once curr and prev agree.
ImlmReturnOnConvergence ==
  /\ pc = "imlm_loop"
  /\ it >= imlmIterations \/ (it > 0 /\ curr = prev)
  /\ estimate' = Bound(curr.val)
  /\ pc' = "resynth"
  /\ UNCHANGED <<inputVars, err, tableVars, mlm, imlmVars, memVars, deepLog,
                 refined, returned, harnessVars>>

\* Line 230 and the assignment of line 67: return curr.
ImlmReturn ==
  /\ pc = "imlm_loop"
  /\ it >= imlmIterations
  /\ estimate' = Bound(curr.val)
  /\ pc' = "resynth"
  /\ UNCHANGED <<inputVars, err, tableVars, mlm, imlmVars, memVars, deepLog,
                 refined, returned, harnessVars>>

\* Lines 68-69 and 161-163: bettermem(rf, Ds, theta, freq) is entered.  Which
\* fits will not converge is a property of the data the model does not
\* compute: any set of catalogue bins.
DispatchMem ==
  /\ pc = "dispatch"
  /\ method = "mem"
  /\ lsqFails' \in SUBSET CatalogueIds
  /\ memRows' = <<>>
  /\ fits' = <<>>
  /\ pc' = "mem_loop"
  /\ UNCHANGED <<inputVars, err, tableVars, mlm, estimate, imlmVars, deepLog,
                 refined, returned, harnessVars>>

\* The catalogue id of the spectrum in the row with the label i.
binIdOf(i) == half[i + 1]

\* Lines 175-192 for one direction: the least-squares calls of the inner
\* loop, up to and with the first that raises.
memFits(rows) ==
  LET n == Len(rows)
      bad == {i \in 0..(n - 1) : ~residualsFinite(memTarget(rows, i))}
      last == IF bad = {} THEN n - 1
              ELSE CHOOSE i \in bad : \A o \in bad : i <= o
  IN Array([c \in 1..(last + 1) |->
        LET y == memTarget(rows, c - 1)
        IN [i |-> c - 1,
            y |-> y,
            raised |-> ~residualsFinite(y),
            success |-> residualsFinite(y) /\ binIdOf(c - 1) \notin lsqFails]])

\* Lines 174-194: one pass of `for theta in thetaG`.
MemRow ==
  /\ pc = "mem_loop"
  /\ Len(memRows) < nDirections
  /\ \E calls \in {memFits(rf)} :
     LET t == Len(memRows) + 1
         raised == \E c \in 1..Len(calls) : calls[c].raised
     IN /\ fits' = calls
        /\ IF raised
             THEN /\ Raise("ValueError", "least_squares")
                  /\ UNCHANGED memRows
             ELSE /\ memRows' = Append(memRows,
                                       Array([c \in 1..Len(calls) |->
                                                 memCell(calls[c].y, t)]))
                  /\ pc' = pc
                  /\ err' = err
  /\ UNCHANGED <<inputVars, tableVars, mlm, estimate, imlmVars, lsqFails, deepLog,
                 refined, returned, harnessVars>>

\* Line 196 and the assignment of line 69: return np.array(estimate).
MemReturn ==
  /\ pc = "mem_loop"
  /\ Len(memRows) >= nDirections
  /\ estimate' = Bound(memRows)
  /\ pc' = "resynth"
  /\ UNCHANGED <<inputVars, err, tableVars, mlm, imlmVars, memVars, deepLog,
                 refined, returned, harnessVars>>

\* Lines 59-69 when no branch of the if / elif chain matches: there is no
\* else, and the run goes on to line 78 with estimate never assigned.
DispatchNone ==
  /\ pc = "dispatch"
  /\ method \notin MethodNames
  /\ pc' = "resynth"
  /\ UNCHANGED <<inputVars, err, tableVars, mlm, estimate, imlmVars, memVars,
                 deepLog, refined, returned, harnessVars>>

\* The real or imaginary parts of an entry of newst, as lines 79-84 read them.
column(entry, part) ==
  Array([j \in 1..Len(entry) |-> IF part = "Re" THEN Re[entry[j]] ELSE Im[entry[j]]])

\* The table lines 86-91 would leave were they not comments.
tableWrittenBack(rows, spectra) ==
  Array([i \in 1..Len(rows) |->
     [rows[i] EXCEPT !.Czz = spectra.Czz[i], !.Cxx = spectra.Cxx[i],
                     !.Cyy = spectra.Cyy[i], !.Cxy = spectra.Cxy[i],
                     !.Qzx = spectra.Qzx[i], !.Qzy = spectra.Qzy[i]]])

\* What lines 86-97, which are comments, leave of the table.
tableAfterResynth(rows, spectra) == rows

\* Lines 78-84: newst = spectrumToCrossSpectrum(np.array(rf.Czz) * estimate,
\* k, theta, d, freq) and the six spectra read from it.  Reading estimate
\* raises UnboundLocalError when no branch assigned it.
Resynth ==
  /\ pc = "resynth"
  /\ IF ~estimate.bound
       THEN /\ Raise("UnboundLocalError", "displacementToWelch:78")
            /\ UNCHANGED <<rf, refined, deepLog>>
       ELSE \E S \in {BroadcastTimes(CzzOf(rf), estimate.val)} :
            LET newst == spectrumToCrossSpectrum(S.grid, kOf(rf), d)
                spectra == [Cxx |-> column(newst[2][2], "Re"),
                            Cyy |-> column(newst[3][3], "Re"),
                            Czz |-> column(newst[1][1], "Re"),
                            Cxy |-> column(newst[2][3], "Re"),
                            Qzx |-> column(newst[1][2], "Im"),
                            Qzy |-> column(newst[1][3], "Im")]
            IN IF S.err # "" \/ s2cRaises(S.grid, kOf(rf))
                 THEN /\ Raise("ValueError", "displacementToWelch:78")
                      /\ deepLog' = IF S.err # "" THEN deepLog
                                     ELSE Append(deepLog, s2cGains(kOf(rf), d).deep)
                      /\ UNCHANGED <<rf, refined>>
                 ELSE /\ refined' = spectra
                      /\ rf' = tableAfterResynth(rf, refined')
                      /\ deepLog' = Append(deepLog, s2cGains(kOf(rf), d).deep)
                      /\ pc' = "return"
                      /\ err' = err
  /\ UNCHANGED <<inputVars, Ds, Gmn, mlm, estimate, imlmVars, memVars, returned,
                 harnessVars>>

\* Line 101: return rf, estimate
Return ==
  /\ pc = "return"
  /\ returned' = [rf |-> rf, estimate |-> estimate.val]
  /\ pc' = "done"
  /\ UNCHANGED <<inputVars, err, tableVars, mlm, estimate, imlmVars, memVars,
                 deepLog, refined, harnessVars>>

Next ==
  \/ CrossSpectrum
  \/ MomentsTable
  \/ DispatchMlm
  \/ DispatchImlm
  \/ ImlmEnter
  \/ ImlmIterate
  \/ ImlmReturn
  \/ DispatchMem
  \/ MemRow
  \/ MemReturn
  \/ DispatchNone
  \/ Resynth
  \/ Return

Spec == Init /\ [][Next]_vars

\* imlmEstimate is sequential code: a pass of its loop that can run does
\* run, and so does its return.  Every such step changes pc or it.
LiveSpec == Spec /\ WF_<<pc, it>>(ImlmIterate) /\ WF_<<pc, it>>(ImlmReturn)

\* ------------------------------------------------------------------------
\* firstOrderFourier and secondOrderFourier applied to one bin
\* ------------------------------------------------------------------------

\* The largest auto-spectrum and the largest co- or quadrature spectrum of
\* the bins drawn.
MaxDiag == 3
MaxOff == 2

\* A Hermitian bin (z, x, y) from its auto-spectra, the quadrature spectra
\* Qzx and Qzy and the co-spectrum Cxy.  The parts lines 37-42 do not read
\* (Czx, Czy, Qxy) are zero: zeroing them keeps a positive-definite bin
\* positive-definite.
HermitianBin(zz, xx, yy, qzx, qzy, cxy) ==
  << <<C(zz, 0), C(0, qzx), C(0, qzy)>>,
     <<C(0, 0 - qzx), C(xx, 0), C(cxy, 0)>>,
     <<C(0, 0 - qzy), C(cxy, 0), C(yy, 0)>> >>

FourierInputs ==
  {HermitianBin(zz, xx, yy, qzx, qzy, cxy) :
     zz \in 0..MaxDiag, xx \in 0..MaxDiag, yy \in 0..MaxDiag,
     qzx \in (0 - MaxOff)..MaxOff, qzy \in (0 - MaxOff)..MaxOff,
     cxy \in (0 - MaxOff)..MaxOff}

\* The pipeline at rest while a function is applied on its own.
AtRest ==
  /\ method = "mlm" /\ sided = TRUE /\ nperseg = 1 /\ half = [b \in 0..0 |-> 1]
  /\ Blank

InitFourier ==
  /\ AtRest
  /\ hin \in FourierInputs
  /\ hout = [applied |-> {}, first |-> <<>>, second |-> <<>>]

\* Lines 37-42 and 53: firstOrderFourier(rf.Qzx, rf.Cxx, rf.Cyy, rf.Czz, rf.Qzy)
ApplyFirstOrderFourier ==
  /\ "firstOrderFourier" \notin hout.applied
  /\ hout' = [hout EXCEPT
       !.applied = @ \cup {"firstOrderFourier"},
       !.first = firstOrderFourier(Im[hin[1][2]], Re[hin[2][2]], Re[hin[3][3]],
                                   Re[hin[1][1]], Im[hin[1][3]])]
  /\ UNCHANGED <<inputVars, pc, err, tableVars, mlm, estimate, imlmVars, memVars,
                 deepLog, refined, returned, hin>>

\* Lines 37-42 and 54: secondOrderFourier(rf.Cxx, rf.Cyy, rf.Czz, rf.Cxy)
ApplySecondOrderFourier ==
  /\ "secondOrderFourier" \notin hout.applied
  /\ hout' = [hout EXCEPT
       !.applied = @ \cup {"secondOrderFourier"},
       !.second = secondOrderFourier(Re[hin[2][2]], Re[hin[3][3]], Re[hin[1][1]],
                                     Re[hin[2][3]])]
  /\ UNCHANGED <<inputVars, pc, err, tableVars, mlm, estimate, imlmVars, memVars,
                 deepLog, refined, returned, hin>>

NextFourier == ApplyFirstOrderFourier \/ ApplySecondOrderFourier

SpecFourier == InitFourier /\ [][NextFourier]_vars

\* ------------------------------------------------------------------------
\* The transfer functions applied to one (k, d)
\* ------------------------------------------------------------------------

\* The longest wavenumber array drawn.
MaxBins == 3

\* Wavenumbers: zero, the smallest positive float of the model, a large one.
WaveNumbers == {0, 1, 30 * Scale}
\* Depths on both sides of the cutoff, and the depth of displacementToWelch.
Depths == {0, deepCutoff, deepCutoff + 1, d}

InitTransfer ==
  /\ AtRest
  /\ hin \in {[k |-> k, dd |-> dd] :
                k \in UNION {[1..n -> WaveNumbers] : n \in 0..MaxBins}, dd \in Depths}
  /\ hout = [applied |-> {}, mlm |-> <<>>, s2c |-> <<>>]

\* Lines 111-119 of mlmEstimate.
ApplyMlmGains ==
  /\ "mlmEstimate" \notin hout.applied
  /\ hout' = [hout EXCEPT !.applied = @ \cup {"mlmEstimate"},
                          !.mlm = mlmGains(hin.k, hin.dd)]
  /\ UNCHANGED <<inputVars, pc, err, tableVars, mlm, estimate, imlmVars, memVars,
                 deepLog, refined, returned, hin>>

\* Lines 236-244 of spectrumToCrossSpectrum.
ApplySpectrumGains ==
  /\ "spectrumToCrossSpectrum" \notin hout.applied
  /\ hout' = [hout EXCEPT !.applied = @ \cup {"spectrumToCrossSpectrum"},
                          !.s2c = s2cGains(hin.k, hin.dd)]
  /\ UNCHANGED <<inputVars, pc, err, tableVars, mlm, estimate, imlmVars, memVars,
                 deepLog, refined, returned, hin>>

NextTransfer == ApplyMlmGains \/ ApplySpectrumGains

SpecTransfer == InitTransfer /\ [][NextTransfer]_vars

\* ------------------------------------------------------------------------
\* Properties
\* ------------------------------------------------------------------------

\* C1: a method name other than mlm, imlm and mem ends the run in an error
\* entered at the dispatch itself; the run never goes on to the re-synthesis
\* step and returns nothing.
C1_UnknownMethodFailsAtDispatch ==
  method \notin MethodNames =>
    \/ pc \in {"start", "table", "dispatch"}
    \/ pc = "error" /\ err.at = "dispatch"

\* C2: the returned estimate has 73 rows and one column per row of the
\* returned table, for every method and for one- and two-sided spectra.
C2_GridMatchesTable ==
  pc = "done" =>
    /\ Len(returned.estimate) = 73
    /\ \A t \in 1..73 : Len(returned.estimate[t]) = Len(returned.rf)

\* The frequencies of a table are positive and increase from row to row, and
\* a0 is Czz in every row.
TableWellFormed(rows) ==
  \A i \in 1..Len(rows) :
    /\ rows[i].freq > 0
    /\ rows[i].a0 = rows[i].Czz
    /\ i > 1 => rows[i - 1].freq < rows[i].freq

C4_RefinementLeavesTableAndEstimate ==
  [][/\ pc \in {"dispatch", "imlm_enter", "imlm_loop", "mem_loop", "resynth", "return"}
          => rf' = rf
     /\ pc = "resynth" => estimate' = estimate
     /\ pc = "return" => returned' = [rf |-> rf, estimate |-> estimate.val]]_vars

\* C4's case: a run returned after re-synthesizing a heave spectrum that
\* differs from the one in its table.
C4_Witness ==
  /\ pc = "done"
  /\ Len(returned.rf) > 0
  /\ refined.Czz[1] # returned.rf[1].Czz

\* C5: in bettermem a least-squares fit that fails does not end the run:
\* no error arises from a least-squares call.
C5_FitFailureDoesNotAbortGrid ==
  ~(pc = "error" /\ err.at = "least_squares")

\* C6: the target of every least-squares call of bettermem is, position by
\* position, a0, a1, b1, a2, b2 of the table row of its frequency.
C6_TargetsByPosition ==
  \A c \in 1..Len(fits) :
    LET r == RowAt(rf, fits[c].i)
    IN fits[c].y = <<r.a0, r.a1, r.b1, r.a2, r.b2>>

\* A Hermitian 3x3 matrix is positive-definite: its leading principal
\* minors are positive.
PositiveDefinite(M) ==
  /\ Re[M[1][1]] > 0
  /\ Re[Minor(M, 3, 3)] > 0
  /\ Det(M) > 0

InUnitInterval(x) == x >= 0 - Scale /\ x <= Scale

\* C7: for a positive-definite Hermitian bin, a1 and b1 of firstOrderFourier
\* and a2 and b2 of secondOrderFourier lie in [-1, 1].
C7_MomentsInUnitInterval ==
  PositiveDefinite(hin) =>
    /\ "firstOrderFourier" \in hout.applied =>
         InUnitInterval(hout.first[1]) /\ InUnitInterval(hout.first[2])
    /\ "secondOrderFourier" \in hout.applied =>
         InUnitInterval(hout.second[1]) /\ InUnitInterval(hout.second[2])

\* C7's case: both functions were applied to a positive-definite bin with
\* nonzero quadrature and co-spectra.
C7_Witness ==
  /\ PositiveDefinite(hin)
  /\ hout.applied = {"firstOrderFourier", "secondOrderFourier"}
  /\ hout.first[1] # 0 /\ hout.first[2] # 0 /\ hout.second[2] # 0

\* The gains g are those of one branch for the whole of k: the deep-water
\* asymptote for every bin exactly when some k is not zero and dd > 15, and
\* the hyperbolic formulas for every bin otherwise.
GlobalBranch(g, k, dd) ==
  LET deep == (\E i \in 1..Len(k) : k[i] # 0) /\ dd > 15
  IN /\ g.deep = deep
     /\ Len(g.hz) = Len(k) /\ Len(g.hxy) = Len(k)
     /\ \A i \in 1..Len(k) :
          IF deep
            THEN /\ g.hz[i].fn = "const" /\ g.hz[i].val = COne
                 /\ g.hxy[i].fn = "const" /\ g.hxy[i].val = CI
            ELSE /\ g.hz[i].fn = "sinh/sinh"
                 /\ g.hxy[i].fn = "i*cosh/sinh"

\* C8: mlmEstimate and spectrumToCrossSpectrum each choose one branch of the
\* transfer functions for the whole array k, the deep-water one exactly
\* when some k is nonzero and the depth is above 15, and they choose alike.
C8_BranchIsGlobal ==
  /\ "mlmEstimate" \in hout.applied => GlobalBranch(hout.mlm, hin.k, hin.dd)
  /\ "spectrumToCrossSpectrum" \in hout.applied => GlobalBranch(hout.s2c, hin.k, hin.dd)
  /\ hout.applied = {"mlmEstimate", "spectrumToCrossSpectrum"} => hout.mlm = hout.s2c

\* C8's case: both functions took the deep-water branch for an array that
\* holds a zero wavenumber next to a nonzero one.
C8_Witness ==
  /\ hout.applied = {"mlmEstimate", "spectrumToCrossSpectrum"}
  /\ hout.mlm.deep
  /\ \E i \in 1..Len(hin.k) : hin.k[i] = 0

\* C9: the loop of imlmEstimate is left only after its 20th pass, to the
\* return (never by an error or an early exit); each pass counts one up and
\* synthesizes from the estimate of the pass before; and the loop is left.
C9_TwentySequentialIterations ==
  /\ [][pc = "imlm_loop" =>
          /\ pc' = "imlm_loop" => it < 20 /\ it' = it + 1 /\ synthesized' = curr
          /\ pc' # "imlm_loop" => it = 20 /\ pc' = "resynth"
                                    /\ estimate' = Bound(curr.val)]_vars
  /\ (pc = "imlm_loop") ~> (pc = "resynth" /\ it = 20)

\* C9's case: imlmEstimate returned to displacementToWelch.
C9_Witness == method = "imlm" /\ pc = "resynth" /\ it = 20

\* previous + eFactor with lambda = initial - previous and
\* eFactor = |lambda|^(2.5 + 1) / (lambda * 10), elementwise.
Corrected(initial, previous) ==
  Array([t \in Directions |-> Array([j \in 1..Len(initial[t]) |->
     LET p == IF previous.scalar THEN previous.val ELSE previous.val[t][j]
         lambda == FSub[initial[t][j], p]
     IN FAdd[p, FDiv[FPowHalves[FAbs[lambda], 7], FMul[lambda, 10 * Scale]]]])])

\* C10, as stated: every pass sets the estimate to previous + eFactor with
\* 'previous' the estimate the pass synthesizes from (the initial MLM
\* estimate in the first pass).
C10_PreviousIsTheSynthesizedEstimate ==
  [][pc = "imlm_loop" /\ pc' = "imlm_loop" =>
       curr' = ArrayVal(Corrected(initialEstimate, curr))]_vars

\* C10, amended: every pass sets the estimate to previous + eFactor with
\* lambda = initialMLM - previous, initialMLM unchanged by the loop, where
\* 'previous' is the scalar 0 in the first pass and the estimate the pass
\* synthesizes from in every later pass.
C10_PreviousIsZeroThenTheSynthesizedEstimate ==
  [][pc = "imlm_loop" /\ pc' = "imlm_loop" =>
       /\ initialEstimate' = initialEstimate
       /\ synthesized' = curr
       /\ prev = (IF it = 0 THEN ScalarVal(0) ELSE curr)
       /\ curr' = ArrayVal(Corrected(initialEstimate, prev))]_vars

\* C10's case: the first pass ran on a grid with columns, synthesizing from
\* the initial MLM estimate.
C10_Witness ==
  /\ pc = "imlm_loop" /\ it = 1
  /\ synthesized = ArrayVal(initialEstimate)
  /\ Len(initialEstimate[1]) > 0

\* C11, as stated: every transfer-function evaluation of a run takes the
\* deep-water branch.
C11_EveryEvaluationDeepWater ==
  \A i \in 1..Len(deepLog) : deepLog[i]

\* Wavenumbers other than those of the table: one nonzero value per row.
otherWaveNumbers(rows) == Array([i \in 1..Len(rows) |-> 7 * Scale + i])

\* C11, amended: every frequency kept in the table is positive and its
\* wavenumber is not zero; the transfer-function evaluations of a run (in
\* mlmEstimate, inside imlmEstimate and in the re-synthesis) all take the
\* deep-water branch when the table keeps a frequency, and all take the
\* hyperbolic branch, on empty arrays, when it keeps none; and the
\* estimate is the one other nonzero wavenumbers give: that of mlmEstimate,
\* the initial estimate of imlmEstimate, and every pass of its loop, which
\* reads the initial and the previous estimate only.
C11_DeepWaterWhereAFrequencyIsKept ==
  /\ [](pc \notin {"start", "table"} =>
          /\ \A i \in 1..Len(rf) : rf[i].freq > 0 /\ rf[i].k # 0
          /\ \A i \in 1..Len(deepLog) : deepLog[i] = (Len(rf) > 0))
  /\ [][/\ pc = "dispatch" /\ method = "mlm" /\ pc' = "resynth" =>
              estimate' = Bound(mlmEstimate(Gmn, otherWaveNumbers(rf), d).grid)
        /\ pc = "imlm_enter" /\ pc' = "imlm_loop" =>
              initialEstimate' =
                 mlmEstimate(zxyMatrixInverse(Ds), otherWaveNumbers(rf), d).grid
        /\ pc = "imlm_loop" /\ pc' = "imlm_loop" =>
              curr' = ArrayVal(imlmUpdate(initialEstimate, prev, betaTimes2, gamma))]_vars

\* C11's case: an imlm run over a table with rows returned, after the
\* evaluations of mlmEstimate, of every pass of the loop and of the
\* re-synthesis.
C11_Witness ==
  /\ pc = "done" /\ method = "imlm"
  /\ Len(returned.rf) > 0
  /\ Len(deepLog) > imlmIterations + 2

=============================================================================
